---------------------------- MODULE Spec2Model ----------------------------
(***************************************************************************)
(* A model of passat.py, the password statistics script: the per-line      *)
(* pipeline of main() (line normalisation, $HEX[..] decoding, shape        *)
(* masking, taxonomy rules, fuzzy categorisation) and the counters it      *)
(* folds every line into.                                                  *)
(*                                                                         *)
(* Characters are code points (naturals) and strings are sequences of      *)
(* code points, so that hex decoding and the latin1 reinterpretation are   *)
(* arithmetic.  The letter-frequency tables of --freq (lines 189-200) and  *)
(* the report printing after the loop only read or extend state that no    *)
(* property below mentions and are not part of this development.           *)
(***************************************************************************)
EXTENDS Integers, Sequences, FiniteSets, TLC

(***************************************************************************)
(* Bounds of the model.                                                    *)
(***************************************************************************)
MaxFiles == 2
MaxLines == 2
MaxLen == 4

(***************************************************************************)
(* Characters and strings.  ASCII lists the printable characters from     *)
(* code point 32 on; GRAVE stands for the grave accent (code point 96).    *)
(***************************************************************************)
ASCII ==
  << " ", "!", "\"", "#", "$", "%", "&", "'", "(", ")", "*", "+", ",", "-", ".", "/",
     "0", "1", "2", "3", "4", "5", "6", "7", "8", "9", ":", ";", "<", "=", ">", "?",
     "@", "A", "B", "C", "D", "E", "F", "G", "H", "I", "J", "K", "L", "M", "N", "O",
     "P", "Q", "R", "S", "T", "U", "V", "W", "X", "Y", "Z", "[", "\\", "]", "^", "_",
     "GRAVE", "a", "b", "c", "d", "e", "f", "g", "h", "i", "j", "k", "l", "m", "n", "o",
     "p", "q", "r", "s", "t", "u", "v", "w", "x", "y", "z", "{", "|", "}", "~" >>

Ord(c) == 31 + (CHOOSE i \in DOMAIN ASCII : ASCII[i] = c)

Str(t) == [i \in DOMAIN t |-> Ord(t[i])]

Backslash == Ord("\\")
Colon == Ord(":")
RightBracket == Ord("]")
At == Ord("@")
Digit0 == Ord("0")
Lower_a == Ord("a")
Upper_A == Ord("A")
Digits == Digit0 .. Ord("9")
Lower == Lower_a .. Ord("z")
Upper == Upper_A .. Ord("Z")
LowerHex == Lower_a .. Ord("f")
UpperHex == Upper_A .. Ord("F")
NL == 10

Tail2(s) == SubSeq(s, 3, Len(s))

Range(f) == {f[i] : i \in DOMAIN f}

(***************************************************************************)
(* SYMBOLS.  SYMBOLS_src is the text between the quotes of the literal at  *)
(* line 14; PyUnescape is what Python makes of a non-raw literal: \\ and   *)
(* \" are escapes for one character, an unrecognised escape such as \- or  *)
(* \] keeps its backslash.                                                 *)
(***************************************************************************)
SYMBOLS_src ==
  Str(<< "~", "GRAVE", "!", "@", "#", "$", "%", "^", "&", "*", "(", ")", "_", "\\", "-",
         "+", "=", "}", "\\", "]", "{", "[", "|", "\\", "\\", "\\", "\"", "'", ":",
         ";", "?", "/", ">", ".", "<", ",", " " >>)

RECURSIVE PyUnescape(_)
PyUnescape(src) ==
  IF src = << >> THEN << >>
  ELSE IF Head(src) = Backslash /\ Len(src) >= 2
            /\ src[2] \in {Backslash, Ord("\""), Ord("'")}
       THEN << src[2] >> \o PyUnescape(Tail2(src))
       ELSE << Head(src) >> \o PyUnescape(Tail(src))

SYMBOLS == PyUnescape(SYMBOLS_src)

(***************************************************************************)
(* Regular expressions.  ReClass is the set of characters a character      *)
(* class [body] of Python's re matches: a backslash escapes the next       *)
(* character (\d is the digits), x-y is a range, anything else is itself.  *)
(***************************************************************************)
RECURSIVE ReClass(_)
ReClass(body) ==
  IF body = << >> THEN {}
  ELSE IF Head(body) = Backslash /\ Len(body) >= 2
       THEN (IF body[2] = Ord("d") THEN Digits ELSE {body[2]}) \cup ReClass(Tail2(body))
       ELSE IF Len(body) >= 3 /\ body[2] = Ord("-")
            THEN (body[1] .. body[3]) \cup ReClass(Tail(Tail2(body)))
            ELSE {Head(body)} \cup ReClass(Tail(body))

(* Constructors of the expressions the script uses. *)
Cls(body) == [t |-> "cls", set |-> ReClass(body), neg |-> FALSE]
NCls(body) == [t |-> "cls", set |-> ReClass(body), neg |-> TRUE]
Lit(c) == [t |-> "cls", set |-> {Ord(c)}, neg |-> FALSE]
Dot == [t |-> "cls", set |-> {NL}, neg |-> TRUE]
Bol == [t |-> "bol"]
Eol == [t |-> "eol"]
Cat(items) == [t |-> "cat", items |-> items]
Star(r) == [t |-> "star", of |-> r]
Plus(r) == [t |-> "plus", of |-> r]
Look(r) == [t |-> "look", of |-> r]

(***************************************************************************)
(* Ends(re, s, i): the positions at which a match of re that starts at     *)
(* position i of s can end.  pattern.search(s) finds a match iff some      *)
(* start position has an end.                                              *)
(***************************************************************************)
RECURSIVE Ends(_, _, _), CatEnds(_, _, _, _), Closure(_, _, _)

StepEnds(re, s, from) == UNION {Ends(re, s, i) : i \in from}

Ends(re, s, i) ==
  CASE re.t = "cls" ->
         IF i <= Len(s) /\ ((s[i] \in re.set) # re.neg) THEN {i + 1} ELSE {}
    [] re.t = "bol" -> IF i = 1 THEN {i} ELSE {}
    [] re.t = "eol" ->
         IF i = Len(s) + 1 \/ (i = Len(s) /\ s[i] = NL) THEN {i} ELSE {}
    [] re.t = "cat" -> CatEnds(re.items, 1, s, {i})
    [] re.t = "star" -> Closure(re.of, s, {i})
    [] re.t = "plus" -> Closure(re.of, s, StepEnds(re.of, s, {i}))
    [] re.t = "look" -> IF Ends(re.of, s, i) # {} THEN {i} ELSE {}

CatEnds(items, k, s, from) ==
  IF k > Len(items) \/ from = {} THEN from
  ELSE CatEnds(items, k + 1, s, StepEnds(items[k], s, from))

Closure(re, s, from) ==
  LET more == from \cup StepEnds(re, s, from)
  IN  IF more = from THEN from ELSE Closure(re, s, more)

Search(re, s) == \E i \in 1 .. Len(s) + 1 : Ends(re, s, i) # {}

(***************************************************************************)
(* stats_regex (lines 16-49): the taxonomy rules, each written as the      *)
(* expression its pattern text denotes after the f-string has put SYMBOLS  *)
(* into it.                                                                *)
(***************************************************************************)
az == Str(<< "a", "-", "z" >>)
AZ == Str(<< "A", "-", "Z" >>)
dd == Str(<< "\\", "d" >>)

D == Cls(dd)
Text(t) == Cat([i \in DOMAIN t |-> Lit(t[i])])
Has(body) == Look(Cat(<< Star(Dot), Cls(body) >>))

stats_regex ==
     ("Contains: 123" :> Text(<< "1", "2", "3" >>))
  @@ ("Contains: 1234" :> Text(<< "1", "2", "3", "4" >>))
  @@ ("Contains: space" :> Lit(" "))
  @@ ("Has: All lowercase" :> Cat(<< Bol, Plus(Cls(az)), Eol >>))
  @@ ("Has: All num" :> Cat(<< Bol, Plus(Cls(dd)), Eol >>))
  @@ ("Has: All uppercase" :> Cat(<< Bol, Plus(Cls(AZ)), Eol >>))
  @@ ("Has: First capital, last number" :> Cat(<< Bol, Cls(AZ), Star(Dot), D, Eol >>))
  @@ ("Has: First capital, last symbol" :>
        Cat(<< Bol, Cls(AZ), Star(Dot), Cls(SYMBOLS), Eol >>))
  @@ ("Has: Four digits at the end" :> Cat(<< NCls(dd), D, D, D, D, Eol >>))
  @@ ("Has: Single digit at the end" :> Cat(<< NCls(dd), D, Eol >>))
  @@ ("Has: Three digits at the end" :> Cat(<< NCls(dd), D, D, D, Eol >>))
  @@ ("Has: Two digits at the end" :> Cat(<< NCls(dd), D, D, Eol >>))
  @@ ("Has: Upper + lower + num + symbol" :>
        Cat(<< Bol, Has(az), Has(AZ), Has(dd), Has(SYMBOLS), Star(Dot), Eol >>))
  @@ ("Has: Lower + num + symbol" :>
        Cat(<< Bol, Has(az), Has(dd), Has(SYMBOLS),
               Star(Cls(az \o dd \o SYMBOLS)), Eol >>))
  @@ ("Has: Upper + num + symbol" :>
        Cat(<< Bol, Has(AZ), Has(dd), Has(SYMBOLS),
               Star(Cls(AZ \o dd \o SYMBOLS)), Eol >>))
  @@ ("Has: Upper + lower + num" :>
        Cat(<< Bol, Has(az), Has(AZ), Has(dd), Star(Cls(AZ \o az \o dd)), Eol >>))
  @@ ("Has: Alpha + num" :>
        Cat(<< Bol, Has(az \o AZ), Has(dd), Star(Cls(AZ \o az \o dd)), Eol >>))
  @@ ("Has: Alpha + symbol" :>
        Cat(<< Bol, Has(az \o AZ), Has(SYMBOLS),
               Star(Cls(AZ \o az \o SYMBOLS)), Eol >>))
  @@ ("Has: Upper + lower + symbol" :>
        Cat(<< Bol, Has(az), Has(AZ), Has(SYMBOLS),
               Star(Cls(AZ \o az \o SYMBOLS)), Eol >>))
  @@ ("Has: Upper + lower" :>
        Cat(<< Bol, Has(az), Has(AZ), Star(Cls(AZ \o az)), Eol >>))
  @@ ("Last digit is '0'" :> Cat(<< Lit("0"), Eol >>))
  @@ ("Last digits are '020'" :> Cat(<< Lit("0"), Lit("2"), Lit("0"), Eol >>))
  @@ ("Last digits are '19xx'" :> Cat(<< Lit("1"), Lit("9"), D, D, Eol >>))
  @@ ("Last digits are '20'" :> Cat(<< Lit("2"), Lit("0"), Eol >>))
  @@ ("Last digits are '2020'" :>
        Cat(<< Lit("2"), Lit("0"), Lit("2"), Lit("0"), Eol >>))
  @@ ("Last digits are '20xx'" :> Cat(<< Lit("2"), Lit("0"), D, D, Eol >>))
  @@ ("Seq: 1 upper > lower > num or symbol" :>
        Cat(<< Bol, Cls(AZ), Plus(Cls(az)), Plus(Cls(dd \o SYMBOLS)), Eol >>))
  @@ ("Seq: 1 upper > lower > num" :>
        Cat(<< Bol, Cls(AZ), Plus(Cls(az)), Plus(Cls(dd)), Eol >>))
  @@ ("Seq: aplha > num > alpha" :>
        Cat(<< Bol, Plus(Cls(AZ \o az)), Plus(D), Plus(Cls(AZ \o az)), Eol >>))
  @@ ("Seq: aplha > num > symbol" :>
        Cat(<< Bol, Plus(Cls(AZ \o az)), Plus(D), Plus(Cls(SYMBOLS)), Eol >>))
  @@ ("Seq: aplha > num" :> Cat(<< Bol, Plus(Cls(AZ \o az)), Plus(D), Eol >>))
  @@ ("Seq: aplha > symbol > num" :>
        Cat(<< Bol, Plus(Cls(AZ \o az)), Plus(Cls(SYMBOLS)), Plus(D), Eol >>))

(* stats (line 51) and the loop over it (lines 210-212): the rules that match. *)
Matching(pw) == {cat \in DOMAIN stats_regex : Search(stats_regex[cat], pw)}

(***************************************************************************)
(* trans (lines 62-64): str.maketrans keeps, for a character that occurs   *)
(* more than once in tr_from, its last pairing.  translate leaves a        *)
(* character outside the table as it is.                                   *)
(***************************************************************************)
Repeat(c, n) == [i \in 1 .. n |-> Ord(c)]

Ljust(s, width, c) == s \o Repeat(c, IF width > Len(s) THEN width - Len(s) ELSE 0)

tr_from ==
  [i \in 1 .. 26 |-> Ord("a") + i - 1] \o [i \in 1 .. 26 |-> Ord("A") + i - 1]
    \o [i \in 1 .. 10 |-> Ord("0") + i - 1] \o SYMBOLS

tr_to == Ljust(Repeat("a", 26) \o Repeat("A", 26) \o Repeat("1", 10), Len(tr_from), "@")

MakeTrans(from, to) ==
  [c \in Range(from) |->
     to[CHOOSE i \in DOMAIN from :
          from[i] = c /\ \A j \in DOMAIN from : from[j] = c => j <= i]]

trans == MakeTrans(tr_from, tr_to)

Translate(pw) == [i \in DOMAIN pw |-> IF pw[i] \in DOMAIN trans THEN trans[pw[i]] ELSE pw[i]]

(***************************************************************************)
(* line_re (line 68) and group 1 of its match (line 167): two optional,   *)
(* lazy "anything up to a colon" groups, then a capturing "anything up to  *)
(* the end".  Each optional group is tried before it is skipped and,       *)
(* being lazy, stops at the first colon it meets; the capturing group      *)
(* matches any rest of a line, so the first try is the match.              *)
(***************************************************************************)
(* A greedy group: it runs to the last colon. *)
LazyPrefix_mut(s) ==
  IF \E i \in DOMAIN s : s[i] = Colon
  THEN CHOOSE i \in DOMAIN s : s[i] = Colon /\ \A j \in i + 1 .. Len(s) : s[j] # Colon
  ELSE 0

LazyPrefix(s) ==
  IF \E i \in DOMAIN s : s[i] = Colon
  THEN CHOOSE i \in DOMAIN s : s[i] = Colon /\ \A j \in 1 .. i - 1 : s[j] # Colon
  ELSE 0

Rest(s, k) == SubSeq(s, k + 1, Len(s))

LineRe(line) ==
  LET r1 == Rest(line, LazyPrefix(line))
  IN  Rest(r1, LazyPrefix(r1))

(***************************************************************************)
(* The $HEX[...] wrapper (lines 177-178).                                  *)
(***************************************************************************)
HexOpen == Str(<< "$", "H", "E", "X", "[" >>)

StartsWith(s, pre) == Len(s) >= Len(pre) /\ SubSeq(s, 1, Len(pre)) = pre

IsHexWrapped(cand) == StartsWith(cand, HexOpen) /\ cand[Len(cand)] = RightBracket

Payload(cand) == SubSeq(cand, 6, Len(cand) - 1)

HexVal(c) ==
  IF c \in Digits THEN c - Digit0
  ELSE IF c \in LowerHex THEN c - Lower_a + 10
  ELSE IF c \in UpperHex THEN c - Upper_A + 10
  ELSE -1

(* A decoder that rejects odd lengths only. *)
UnhexlifyOk_mut(h) == Len(h) % 2 = 0

(* binascii.unhexlify raises binascii.Error unless this holds. *)
UnhexlifyOk(h) == Len(h) % 2 = 0 /\ \A i \in DOMAIN h : HexVal(h[i]) >= 0

Unhexlify(h) == [i \in 1 .. (Len(h) \div 2) |-> 16 * HexVal(h[2 * i - 1]) + HexVal(h[2 * i])]

(* bytes.decode("latin1"): byte b is the character with code point b. *)
Latin1(bytes) == [i \in DOMAIN bytes |-> bytes[i]]

(***************************************************************************)
(* collections.Counter: a missing key counts 0, "+= 1" adds the key.       *)
(***************************************************************************)
Get(c, k) == IF k \in DOMAIN c THEN c[k] ELSE 0

(* "= 1" for "+= 1". *)
PlusOne_mut(c, k) == 1

PlusOne(c, k) == Get(c, k) + 1

IncAll(c, keys) == [k \in DOMAIN c \cup keys |-> IF k \in keys THEN PlusOne(c, k) ELSE c[k]]

Inc(c, k) == IncAll(c, {k})

RECURSIVE SumOver(_, _)
SumOver(c, keys) ==
  IF keys = {} THEN 0
  ELSE LET k == CHOOSE x \in keys : TRUE IN c[k] + SumOver(c, keys \ {k})

Sum(c) == SumOver(c, DOMAIN c)

(***************************************************************************)
(* The category dictionary (lines 119-129).  A dictionary file is missing, *)
(* is not JSON, or holds one of two documents.                             *)
(***************************************************************************)
CategoryFiles == {"missing", "malformed", "empty", "words"}

Document(file) ==
  IF file = "words"
  THEN ("common" :> << "password", "maria" >>) @@ ("names" :> << "maria" >>)
  ELSE << >>

Words(categories) == UNION {Range(categories[c]) : c \in DOMAIN categories}

Word2Category(categories) ==
  [w \in Words(categories) |-> {c \in DOMAIN categories : w \in Range(categories[c])}]

(***************************************************************************)
(* Fuzzy matching (lines 217-235).  process.extract is the fuzzywuzzy      *)
(* library's: it scores every word and returns the ExtractLimit best,      *)
(* each with its score.  The scores are the library's and are drawn from   *)
(* Scores.                                                                 *)
(***************************************************************************)
Threshold == 80
MinLength == 3
ExtractLimit == 5

Scores == {Threshold, Threshold + 1}

Extracts(choices) ==
  {m \in UNION {[top -> Scores] : top \in SUBSET choices} :
     /\ Cardinality(DOMAIN m) = (IF Cardinality(choices) < ExtractLimit
                                 THEN Cardinality(choices) ELSE ExtractLimit)}

(* ">=" for ">". *)
Retained_mut(score) == score >= Threshold

Retained(score) == score > Threshold

(* No sentinel for an empty label set. *)
Labels_mut(found) == found

Labels(found) == IF found = {} THEN {"no_category"} ELSE found

(***************************************************************************)
(* The lines an input source may hold.                                     *)
(***************************************************************************)
LineSet ==
  { << >>,
    Str(<< "a", "b" >>),
    Str(<< "u", ":" >>),
    Str(<< "u", ":", "a", "b", "c", "d" >>),
    Str(<< "u", ":", "h", ":", "a", ":", "b" >>),
    Str(<< "$", "H", "E", "X", "[", "]" >>),
    Str(<< "$", "H", "E", "X", "[", "6", "]" >>),
    Str(<< "$", "H", "E", "X", "[", "6", "g", "]" >>),
    Str(<< "$", "H", "E", "X", "[", "6", "1", "6", "2", "]" >>),
    Str(<< "u", ":", "h", ":", "P", "a", "1", "!" >>),
    Str(<< "u", ":", "h", ":", "P", "a", "1", "\\" >>) }

(* Lines 177-178 on a candidate whose payload decodes. *)
Decoded(cand) == IF IsHexWrapped(cand) THEN Latin1(Unhexlify(Payload(cand))) ELSE cand

(***************************************************************************)
(* The rules that match each password the lines of LineSet hold, computed  *)
(* once (as line 51 compiles the patterns once).                           *)
(***************************************************************************)
Passwords ==
  {Decoded(LineRe(line)) :
     line \in {x \in LineSet : IsHexWrapped(LineRe(x)) => UnhexlifyOk(Payload(LineRe(x)))}}

MatchingTable == {<< pw, Matching(pw) >> : pw \in Passwords}

Taxonomy(pw) == (CHOOSE row \in MatchingTable : row[1] = pw)[2]

(***************************************************************************)
(* The state of main().                                                    *)
(***************************************************************************)
VARIABLES
  pc,                    \* where main() is
  error,                 \* the exception that ended the run, or "none"
  no_categories,         \* args.no_categories
  nfiles,                \* len(args.input_file)
  categories_file,       \* what args.categories names
  words, word2category,
  cnt, cnt_length, cnt_pwd, cnt_root, cnt_regex, cnt_pattern,
  grand_total, total_valid_passwords,
  files_done,            \* the sources the outer loop has finished
  total, progress, valid_passwords,
  l, p, pwd_pat, mall, pw_categories,
  log                    \* history: every line taken from a source so far

counters == << cnt, cnt_length, cnt_pwd, cnt_root, cnt_regex, cnt_pattern >>
totals == << grand_total, total_valid_passwords >>
config == << no_categories, nfiles, categories_file, words, word2category >>
fuzzy == << mall, pw_categories, cnt, cnt_root >>
vars ==
  << pc, error, config, counters, totals, files_done, total, progress,
     valid_passwords, l, p, pwd_pat, mall, pw_categories, log >>

Fresh ==
  /\ error = "none"
  /\ no_categories \in BOOLEAN
  /\ nfiles \in 1 .. MaxFiles
  /\ categories_file = "unread"
  /\ words = {}
  /\ word2category = << >>
  /\ cnt = << >> /\ cnt_length = << >> /\ cnt_pwd = << >>
  /\ cnt_root = << >> /\ cnt_regex = << >> /\ cnt_pattern = << >>
  /\ grand_total = 0 /\ total_valid_passwords = 0
  /\ files_done = 0
  /\ total = 0 /\ progress = 0 /\ valid_passwords = 0
  /\ p = << >> /\ pwd_pat = << >>
  /\ mall = << >> /\ pw_categories = {}
  /\ log = << >>

Init == pc = "load" /\ l = << >> /\ Fresh

Raise(exception) == pc' = "crashed" /\ error' = exception

(* Lines 119-129 with --no-categories: nothing is loaded. *)
SkipCategories ==
  /\ pc = "load" /\ no_categories
  /\ pc' = "open"
  /\ UNCHANGED << error, config, counters, totals, files_done, total, progress,
                  valid_passwords, l, p, pwd_pat, mall, pw_categories, log >>

(* Lines 119-129: the dictionary is read and inverted. *)
LoadCategories ==
  /\ pc = "load" /\ ~no_categories
  /\ \E file \in {"empty", "words"} :
       /\ categories_file' = file
       /\ words' = Words(Document(file))
       /\ word2category' = Word2Category(Document(file))
  /\ pc' = "open"
  /\ UNCHANGED << error, no_categories, nfiles, counters, totals, files_done, total,
                  progress, valid_passwords, l, p, pwd_pat, mall, pw_categories, log >>

(* Lines 121-122: open() or json.load() raises and nothing catches it. *)
LoadCategoriesFails ==
  /\ pc = "load" /\ ~no_categories
  /\ \E file \in {"missing", "malformed"} :
       /\ categories_file' = file
       /\ Raise(IF file = "missing" THEN "FileNotFoundError" ELSE "JSONDecodeError")
  /\ UNCHANGED << no_categories, nfiles, words, word2category, counters, totals,
                  files_done, total, progress, valid_passwords, l, p, pwd_pat, mall,
                  pw_categories, log >>

(* Lines 147-158: the next source is read whole. *)
OpenSource ==
  /\ pc = "open" /\ files_done < nfiles
  /\ \E n \in 0 .. (MaxLines - Len(log)) : total' = n
  /\ progress' = 0
  /\ valid_passwords' = 0
  /\ pc' = "loop"
  /\ UNCHANGED << error, config, counters, totals, files_done, l, p, pwd_pat, mall,
                  pw_categories, log >>

(* Line 151: a source that cannot be opened. *)
OpenSourceFails ==
  /\ pc = "open" /\ files_done < nfiles
  /\ Raise("OSError")
  /\ UNCHANGED << config, counters, totals, files_done, total, progress,
                  valid_passwords, l, p, pwd_pat, mall, pw_categories, log >>

Taken(line) ==
  /\ pc = "loop" /\ progress < total
  /\ l' = line
  /\ log' = Append(log, line)
  /\ progress' = progress + 1

(* Lines 159-171: a line with no password is skipped. *)
SkipEmpty(line) ==
  /\ Taken(line)
  /\ LineRe(line) = << >>
  /\ p' = << >>
  /\ UNCHANGED << pc, error, config, counters, totals, files_done, total,
                  valid_passwords, pwd_pat, mall, pw_categories >>

(* Lines 159-178: unhexlify raises on the payload and nothing catches it. *)
HexFails(line) ==
  /\ Taken(line)
  /\ LineRe(line) # << >>
  /\ IsHexWrapped(LineRe(line)) /\ ~UnhexlifyOk(Payload(LineRe(line)))
  /\ p' = LineRe(line)
  /\ valid_passwords' = valid_passwords + 1
  /\ Raise("binascii.Error")
  /\ UNCHANGED << config, counters, totals, files_done, total, pwd_pat, mall,
                  pw_categories >>

(* Lines 159-243: a line with a password goes through the whole pipeline. *)
Classify(line) ==
  /\ Taken(line)
  /\ LineRe(line) # << >>
  /\ IsHexWrapped(LineRe(line)) => UnhexlifyOk(Payload(LineRe(line)))
  /\ LET pw == Decoded(LineRe(line))
     IN  /\ p' = pw
         /\ valid_passwords' = valid_passwords + 1
         /\ cnt_length' = Inc(cnt_length, Len(pw))
         /\ cnt_pwd' = Inc(cnt_pwd, pw)
         /\ pwd_pat' = Translate(pw)
         /\ cnt_pattern' = Inc(cnt_pattern, Translate(pw))
         /\ cnt_regex' = IncAll(cnt_regex, Taxonomy(pw))
         /\ IF Len(pw) > MinLength /\ ~no_categories /\ words # {}
            THEN \E m \in Extracts(words) :
                   LET kept == {w \in DOMAIN m : Retained(m[w])}
                       labels == Labels(UNION {word2category[w] : w \in kept})
                   IN  /\ mall' = m
                       /\ cnt_root' = IncAll(cnt_root, kept)
                       /\ pw_categories' = labels
                       /\ cnt' = IncAll(cnt, labels)
            ELSE UNCHANGED fuzzy
  /\ UNCHANGED << pc, error, config, totals, files_done, total >>

ProcessLine == \E line \in LineSet : SkipEmpty(line) \/ HexFails(line) \/ Classify(line)

(* "=" for "+=". *)
Accumulate_mut(sum, n) == n

(* "+=" of lines 245-246. *)
Accumulate(sum, n) == sum + n

(* Lines 245-247: the source's totals are added to the run's. *)
CloseSource ==
  /\ pc = "loop" /\ progress = total
  /\ grand_total' = Accumulate(grand_total, total)
  /\ total_valid_passwords' = Accumulate(total_valid_passwords, valid_passwords)
  /\ files_done' = files_done + 1
  /\ pc' = "open"
  /\ UNCHANGED << error, config, counters, total, progress, valid_passwords, l, p,
                  pwd_pat, mall, pw_categories, log >>

(* Lines 249-300: the report reads the counters and the totals. *)
Report ==
  /\ pc = "open" /\ files_done = nfiles
  /\ pc' = "done"
  /\ UNCHANGED << error, config, counters, totals, files_done, total, progress,
                  valid_passwords, l, p, pwd_pat, mall, pw_categories, log >>

Next ==
  \/ SkipCategories
  \/ LoadCategories
  \/ LoadCategoriesFails
  \/ OpenSource
  \/ OpenSourceFails
  \/ ProcessLine
  \/ CloseSource
  \/ Report

Spec == Init /\ [][Next]_vars

(***************************************************************************)
(* The Line Normalizer alone: line_re applied to every line of at most     *)
(* MaxLen characters over a colon and two other characters.                *)
(***************************************************************************)
NormalizerLines ==
  UNION {[1 .. n -> {Colon, Ord("u"), Ord("p")}] : n \in 0 .. MaxLen}

InitNormalizer == pc = "line_re" /\ l \in NormalizerLines /\ Fresh

Normalize ==
  /\ pc = "line_re"
  /\ p' = LineRe(l)
  /\ pc' = "matched"
  /\ UNCHANGED << error, config, counters, totals, files_done, total, progress,
                  valid_passwords, l, pwd_pat, mall, pw_categories, log >>

NextNormalizer == Normalize

SpecNormalizer == InitNormalizer /\ [][NextNormalizer]_vars

(***************************************************************************)
(* Properties.  What they say of a line is said in their own terms, not    *)
(* the pipeline's.                                                         *)
(***************************************************************************)
NumColons(s) == Cardinality({i \in DOMAIN s : s[i] = Colon})

(* What follows the k-th colon of s. *)
AfterColon(s, k) ==
  LET at == CHOOSE i \in DOMAIN s : s[i] = Colon /\ NumColons(SubSeq(s, 1, i)) = k
  IN  SubSeq(s, at + 1, Len(s))

(* The password field of a line: after its second colon, else after its only
   colon, else the line. *)
Field(line) ==
  IF NumColons(line) = 0 THEN line
  ELSE IF NumColons(line) = 1 THEN AfterColon(line, 1)
  ELSE AfterColon(line, 2)

HexChars == Digits \cup LowerHex \cup UpperHex

WrapperOpen == Str(<< "$", "H", "E", "X", "[" >>)

Wrapped(cand) ==
  /\ Len(cand) >= 6
  /\ SubSeq(cand, 1, 5) = WrapperOpen
  /\ cand[Len(cand)] = RightBracket

Inner(cand) == SubSeq(cand, 6, Len(cand) - 1)

Malformed(cand) ==
  Wrapped(cand) /\ (Len(Inner(cand)) % 2 = 1 \/ \E i \in DOMAIN Inner(cand) : Inner(cand)[i] \notin HexChars)

(* A line with a password that the pipeline classified. *)
Valid(line) == Field(line) # << >>
Processed(line) == Valid(line) /\ ~Malformed(Field(line))
Value(line) == Decoded(Field(line))

Entries(Q(_)) == {i \in DOMAIN log : Q(log[i])}
NumValid == Cardinality(Entries(Valid))
NumProcessed == Cardinality(Entries(Processed))

(* The step that took line l' from the source. *)
LineStep == progress' = progress + 1

FuzzyOn == ~no_categories /\ words # {}
LongEnough(line) == Processed(line) /\ Len(Value(line)) > 3
NumResolved == Cardinality(Entries(LongEnough))

(* C1 as stated: after a run with fuzzy categorization enabled, the sum of the
   category counters equals the number of valid passwords. *)
C1_SumEqualsValid ==
  (pc = "done" /\ ~no_categories) => Sum(cnt) = total_valid_passwords

(* C1 amended: with fuzzy categorization on and a non-empty word set, every
   valid password longer than 3 characters is counted in at least one category
   (the sentinel when nothing is retained), so the sum of cnt is at least the
   number of such passwords; shorter passwords, and every password when the
   word set is empty or categorization is off, add nothing to cnt. *)
C1_SumCoversResolved ==
  IF FuzzyOn
  THEN NumResolved <= Sum(cnt) /\ (NumResolved = 0 => cnt = << >>)
  ELSE cnt = << >>

C1_Witness ==
  /\ pc = "done" /\ FuzzyOn
  /\ NumResolved = 1 /\ total_valid_passwords = 2
  /\ Sum(cnt) = 2 /\ Get(cnt, "no_category") = 0

(* C2: no empty password is ever counted: the length counter has nothing at 0
   and neither the value nor the shape counter has the empty string. *)
C2_NeverEmpty ==
  Get(cnt_length, 0) = 0 /\ Get(cnt_pwd, << >>) = 0 /\ Get(cnt_pattern, << >>) = 0

(* C3: a character of a password is masked as the symbol marker exactly when
   the symbol class of the taxonomy rules matches it. *)
C3_SameSymbolClass ==
  \A c \in Range(p) :
    (Translate(<< c >>) = << At >>) <=> Search(Cls(SYMBOLS), << c >>)

(* C4: a line whose password is a $HEX[..] wrapper with a malformed payload
   ends the run in binascii.Error and changes no statistics counter. *)
C4_MalformedHexRaises ==
  [][(LineStep /\ Malformed(Field(l')))
       => (pc' = "crashed" /\ error' = "binascii.Error" /\ UNCHANGED counters)]_vars

C4_Witness ==
  /\ pc = "crashed" /\ error = "binascii.Error"
  /\ Malformed(Field(l)) /\ Len(Inner(Field(l))) % 2 = 0
  /\ Len(log) = 2 /\ Sum(cnt_pwd) = 1

(* C5: a missing or malformed category dictionary does not end the run. *)
C5_DictionaryNotFatal ==
  categories_file \in {"missing", "malformed"} => pc # "crashed"

(* C6: of the matches returned for a password, a word that scores above 80 is
   counted as a base word and gives all its categories to the label set; a
   word that scores 80 or less is not counted, and every category of the label
   set is the sentinel or comes from another word that scores above 80. *)
C6_ThresholdExclusive ==
  [][(LineStep /\ pc' = "loop" /\ FuzzyOn /\ Len(p') > 3)
       => \A w \in DOMAIN mall' :
            IF mall'[w] > 80
            THEN /\ Get(cnt_root', w) = Get(cnt_root, w) + 1
                 /\ word2category[w] \subseteq pw_categories'
            ELSE /\ Get(cnt_root', w) = Get(cnt_root, w)
                 /\ \A c \in pw_categories' :
                      \/ c = "no_category"
                      \/ \E v \in DOMAIN mall' \ {w} :
                           mall'[v] > 80 /\ c \in word2category[v]]_vars

C6_Witness ==
  /\ pc = "loop"
  /\ \E w, v \in DOMAIN mall :
       /\ mall[w] = 80 /\ mall[v] = 81
       /\ Get(cnt_root, w) = 0 /\ Get(cnt_root, v) = 1
       /\ pw_categories = word2category[v]
       /\ ~(word2category[w] \subseteq pw_categories)

(* C7: the extracted password is the whole line when the line has no colon,
   what follows the first colon when it has one, and what follows the second
   colon, later colons kept, when it has two or more. *)
C7_Normalizer == pc = "matched" => p = Field(l)

C7_Witness == pc = "matched" /\ NumColons(l) = 3 /\ NumColons(p) = 1 /\ Len(p) = 2

(* C8: after a run, grand_total is the number of lines read and
   total_valid_passwords the number of them with a non-empty password field;
   a line with an empty password field changes no statistics counter and does
   not count as valid. *)
C8_Totals ==
  /\ [](pc = "done" => (grand_total = Len(log) /\ total_valid_passwords = NumValid))
  /\ [][(LineStep /\ Field(l') = << >>)
          => (UNCHANGED counters /\ valid_passwords' = valid_passwords)]_vars

C8_Witness ==
  /\ pc = "done" /\ files_done = 2
  /\ grand_total = 2 /\ total_valid_passwords = 1
  /\ log[1] # << >> /\ ~Valid(log[1])

(* C9: every counter holds, per key, the number of processed passwords with
   that key (value, length, shape, matching rule), and after a run the value,
   length and shape counters each sum to the number of valid passwords. *)
C9_CountersExact ==
  LET done == {<< i, Value(log[i]) >> : i \in Entries(Processed)}
      rules == {<< d[1], Taxonomy(d[2]) >> : d \in done}
  IN  /\ \A v \in DOMAIN cnt_pwd \cup {d[2] : d \in done} :
           Get(cnt_pwd, v) = Cardinality({d \in done : d[2] = v})
      /\ \A n \in DOMAIN cnt_length \cup {Len(d[2]) : d \in done} :
           Get(cnt_length, n) = Cardinality({d \in done : Len(d[2]) = n})
      /\ \A r \in DOMAIN cnt_regex \cup DOMAIN stats_regex :
           Get(cnt_regex, r) = Cardinality({d \in rules : r \in d[2]})
      /\ pc = "done" =>
           /\ Sum(cnt_pwd) = total_valid_passwords
           /\ Sum(cnt_length) = total_valid_passwords
           /\ Sum(cnt_pattern) = total_valid_passwords

C9_Witness ==
  /\ pc = "done" /\ files_done = 2
  /\ \E v \in DOMAIN cnt_pwd : v # << >> /\ cnt_pwd[v] = 2 /\ log[1] # log[2]
  /\ Get(cnt_regex, "Has: All lowercase") = 2

(* One uppercase letter, lowercase letters, then digits and characters of
   SYMBOLS with at least one of each. *)
Scenario(pw) ==
  /\ Len(pw) >= 4
  /\ pw[1] \in Upper
  /\ \E k \in 2 .. Len(pw) - 2 :
       /\ \A i \in 2 .. k : pw[i] \in Lower
       /\ \A i \in k + 1 .. Len(pw) : pw[i] \in Digits \cup Range(SYMBOLS)
       /\ \E i \in k + 1 .. Len(pw) : pw[i] \in Digits
       /\ \E i \in k + 1 .. Len(pw) : pw[i] \in Range(SYMBOLS)

(* C10: for a line user:hash:P with P of that shape, the extracted password
   is P, and the two taxonomy counters and the length counter of len(P) each
   go up by 1. *)
C10_Scenario ==
  [][(LineStep /\ NumColons(l') >= 2 /\ Scenario(AfterColon(l', 2)))
       => LET pw == AfterColon(l', 2)
          IN  /\ p' = pw
              /\ Get(cnt_regex', "Has: Upper + lower + num + symbol")
                   = Get(cnt_regex, "Has: Upper + lower + num + symbol") + 1
              /\ Get(cnt_regex', "Seq: 1 upper > lower > num or symbol")
                   = Get(cnt_regex, "Seq: 1 upper > lower > num or symbol") + 1
              /\ Get(cnt_length', Len(pw)) = Get(cnt_length, Len(pw)) + 1]_vars

(* C10 where every symbol of P is one the rules' symbol class matches: the
   case the backslash of SYMBOLS is not part of. *)
C10_ScenarioMatchedSymbols ==
  [][(LineStep /\ NumColons(l') >= 2 /\ Scenario(AfterColon(l', 2))
        /\ Backslash \notin Range(AfterColon(l', 2)))
       => LET pw == AfterColon(l', 2)
          IN  /\ p' = pw
              /\ Get(cnt_regex', "Has: Upper + lower + num + symbol")
                   = Get(cnt_regex, "Has: Upper + lower + num + symbol") + 1
              /\ Get(cnt_regex', "Seq: 1 upper > lower > num or symbol")
                   = Get(cnt_regex, "Seq: 1 upper > lower > num or symbol") + 1
              /\ Get(cnt_length', Len(pw)) = Get(cnt_length, Len(pw)) + 1]_vars

=============================================================================
